---- MODULE Spec2Model ----
(***************************************************************************)
(* SHEATH-PIC (sheath_steady.cpp): a 1D-1V electrostatic particle-in-cell  *)
(* code.  The model keeps the program's state (the Domain arrays, the two  *)
(* Species with their particle lists and identity counters, the position   *)
(* of main) and one action per call that main makes.                       *)
(*                                                                         *)
(* Numbers.  The program computes in double.  The model computes in exact  *)
(* rational arithmetic: a number is a pair <<n, d>> with d > 0 and         *)
(* gcd(n, d) = 1.  The one exception is the relaxation solver, whose       *)
(* iterates need unbounded precision when kept exact: there each stored    *)
(* phi[i] is rounded to the nearest multiple of 1/FpScale, the way the     *)
(* program rounds it to the nearest double.  Physical constants are given  *)
(* in scaled units (the source's values do not fit TLC's integers).        *)
(***************************************************************************)
EXTENDS Integers, Sequences, FiniteSets

(* ------------------------------------------------------------------ *)
(* Rational arithmetic                                                  *)
(* ------------------------------------------------------------------ *)
Abs(n) == IF n < 0 THEN -n ELSE n

RECURSIVE GCD(_, _)
GCD(a, b) == IF b = 0 THEN a ELSE GCD(b, a % b)

Norm(n, d) ==
  LET s == IF d < 0 THEN -1 ELSE 1
      g == GCD(Abs(n), Abs(d))
  IN  IF n = 0 THEN <<0, 1>> ELSE <<(s * n) \div g, (s * d) \div g>>

Rat(n, d) == Norm(n, d)
Zero == <<0, 1>>
One == <<1, 1>>
Two == <<2, 1>>
Half == <<1, 2>>

RNeg(a) == <<-a[1], a[2]>>

RAdd(a, b) ==
  LET g == GCD(a[2], b[2])
      l == (a[2] \div g) * b[2]
  IN  Norm(a[1] * (l \div a[2]) + b[1] * (l \div b[2]), l)

RSub(a, b) == RAdd(a, RNeg(b))

RMul(a, b) ==
  LET g1 == GCD(Abs(a[1]), b[2])
      g2 == GCD(Abs(b[1]), a[2])
  IN  IF a[1] = 0 \/ b[1] = 0 THEN Zero
      ELSE <<(a[1] \div g1) * (b[1] \div g2), (a[2] \div g2) * (b[2] \div g1)>>

RInv(a) == IF a[1] < 0 THEN <<-a[2], -a[1]>> ELSE <<a[2], a[1]>>

RDiv(a, b) == RMul(a, RInv(b))

Floor(a) == a[1] \div a[2]

(* a < b for non-negative rationals, by continued-fraction expansion, so  *)
(* that no cross product is formed.                                       *)
RECURSIVE PosLess(_, _)
PosLess(a, b) ==
  LET fa == Floor(a)
      fb == Floor(b)
      ra == <<a[1] % a[2], a[2]>>
      rb == <<b[1] % b[2], b[2]>>
  IN  IF fa # fb THEN fa < fb
      ELSE IF rb[1] = 0 THEN FALSE
      ELSE IF ra[1] = 0 THEN TRUE
      ELSE PosLess(RInv(rb), RInv(ra))

RLess(a, b) ==
  IF a[1] < 0 /\ b[1] >= 0 THEN TRUE
  ELSE IF a[1] >= 0 /\ b[1] < 0 THEN FALSE
  ELSE IF a[1] < 0 THEN PosLess(RNeg(b), RNeg(a))
  ELSE PosLess(a, b)

RLeq(a, b) == ~RLess(b, a)

(* (int)x of C++: truncation toward zero *)
IntCast(a) == IF a[1] >= 0 THEN a[1] \div a[2] ELSE -((-a[1]) \div a[2])

FromInt(i) == <<i, 1>>

(* The precision to which the relaxation solver's stored values are kept *)
FpScale == 60

FpRound(a) == Norm((2 * a[1] * FpScale + a[2]) \div (2 * a[2]), FpScale)

(* ------------------------------------------------------------------ *)
(* Constants of the program, in scaled units                           *)
(* ------------------------------------------------------------------ *)
EPS == One                 \* vacuum permittivity
K == One                   \* Boltzmann constant
ME == One                  \* electron mass
QE == One                  \* charge of an electron
AMU == Rat(1, 10)
EV_TO_K == One
PLASMA_DEN == One
DX == One                  \* cell spacing
DT == One                  \* time step
ELECTRON_TEMP == One
ION_TEMP == One

NUM_IONS == 2
NUM_ELECTRONS == 3
NC == 3
NUM_TS == 1

Species == {"ions", "electrons"}

VARIABLES
  ni, dx,                      \* Domain: number of nodes, cell spacing
  phi, ef, rho, nde, ndi,      \* Domain: per-node field arrays
  veli, vele,
  part_list, part_id,          \* per Species: particles, next identity
  pc, ts, Time,                \* position of main, loop counter, clock
  ret, sweeps, printed,        \* last solver call: result, sweeps run,
                               \*   failure messages printed
  n_rewind,                    \* per Species: calls of RewindSpecies so far
  oob,                         \* an array was addressed outside 0..ni-1
  pre                          \* the arguments of the last call made on
                               \*   drawn inputs (record), for reference

vars == <<ni, dx, phi, ef, rho, nde, ndi, veli, vele, part_list, part_id,
          pc, ts, Time, ret, sweeps, printed, n_rewind, oob, pre>>

(* ------------------------------------------------------------------ *)
(* Domain                                                               *)
(* ------------------------------------------------------------------ *)
Nodes == 0 .. (ni - 1)
x0 == Zero
xl == RMul(FromInt(ni - 1), dx)
xmax == RAdd(x0, xl)
ZeroField == [i \in Nodes |-> Zero]        \* memset(field, 0, ...)

(* ------------------------------------------------------------------ *)
(* Species, as constructed in main                                      *)
(* ------------------------------------------------------------------ *)
NUM(s) == IF s = "ions" THEN NUM_IONS ELSE NUM_ELECTRONS
mass(s) == IF s = "ions" THEN RMul(FromInt(40), AMU) ELSE ME
charge(s) == IF s = "ions" THEN QE ELSE RNeg(QE)
spwt(s) == RDiv(RMul(PLASMA_DEN, xl), FromInt(NUM(s)))
Temp(s) == IF s = "ions" THEN ION_TEMP ELSE ELECTRON_TEMP

Particle(x, v) == [pos |-> x, vel |-> v, id |-> -1]

(* add with the identity counter left as it was *)
add_SameId(list, nextId, part) ==
  [list |-> Append(list, [part EXCEPT !.id = nextId]), part_id |-> nextId]

(* Species::add: returns the new list and the new identity counter *)
add(list, nextId, part) ==
  [list |-> Append(list, [part EXCEPT !.id = nextId]), part_id |-> nextId + 1]

(* ------------------------------------------------------------------ *)
(* Sampler                                                              *)
(* ------------------------------------------------------------------ *)
(* exact square root of a rational that is a perfect square *)
ISqrt(n) == CHOOSE k \in 0 .. n : k * k = n
RSqrt(a) == <<ISqrt(a[1]), ISqrt(a[2])>>

(* SampleVel with its three rnd() draws r1, r2, r3 made explicit;       *)
(* v_th*sqrt(2) is computed as sqrt(2*(2*K*T/mass)).                    *)
SampleVel(T, m, r1, r2, r3) ==
  LET v_th_sqrt2 == RSqrt(RMul(Two, RDiv(RMul(Two, RMul(K, T)), m)))
  IN  RMul(v_th_sqrt2, RSub(RAdd(r1, RAdd(r2, r3)), Rat(3, 2)))

(* Init's loop count *)
InitCount(s) == NUM_IONS

(* One pass of Init's loop body with the draws rx, r1, r2, r3 *)
InitParticle(s, rx, r1, r2, r3) ==
  LET x == RAdd(x0, RMul(RMul(rx, FromInt(ni - 1)), dx))
      v == SampleVel(RMul(Temp(s), EV_TO_K), mass(s), r1, r2, r3)
  IN  Particle(x, v)

(* Init with the sequence of draws: draws[p] = <<rx, r1, r2, r3>> *)
RECURSIVE InitLoop(_, _, _, _, _)
InitLoop(s, list, nextId, draws, p) ==
  IF p > Len(draws) THEN [list |-> list, part_id |-> nextId]
  ELSE LET d == draws[p]
           r == add(list, nextId, InitParticle(s, d[1], d[2], d[3], d[4]))
       IN  InitLoop(s, r.list, r.part_id, draws, p + 1)

(* ------------------------------------------------------------------ *)
(* Deposition / interpolation                                           *)
(* ------------------------------------------------------------------ *)
XtoL(pos) == RDiv(RSub(pos, x0), dx)

(* both nodes that scatter and gather address lie in the array *)
InGrid(lc) == IntCast(lc) >= 0 /\ IntCast(lc) + 1 <= ni - 1

scatter(lc, value, field) ==
  LET i == IntCast(lc)
      di == RSub(lc, FromInt(i))
  IN  [field EXCEPT ![i] = RAdd(@, RMul(value, RSub(One, di))),
                    ![i + 1] = RAdd(@, RMul(value, di))]

gather(lc, field) ==
  LET i == IntCast(lc)
      di == RSub(lc, FromInt(i))
  IN  RAdd(RMul(field[i], RSub(One, di)), RMul(field[i + 1], di))

(* the loop over part_list of ScatterSpecies (withVel = FALSE) and of   *)
(* ScatterSpeciesVel (withVel = TRUE)                                   *)
RECURSIVE ScatterLoop(_, _, _, _, _, _)
ScatterLoop(s, list, k, withVel, field, bad) ==
  IF k > Len(list) THEN [field |-> field, oob |-> bad]
  ELSE LET p == list[k]
           lc == XtoL(p.pos)
           value == IF withVel THEN RMul(spwt(s), p.vel) ELSE spwt(s)
       IN  IF InGrid(lc)
           THEN ScatterLoop(s, list, k + 1, withVel, scatter(lc, value, field), bad)
           ELSE ScatterLoop(s, list, k + 1, withVel, field, TRUE)

(* divide by cell volume, double the two boundary nodes *)
CellVolume(field) ==
  LET f == [i \in Nodes |-> RDiv(field[i], dx)]
      g == [f EXCEPT ![0] = RMul(@, Two)]
  IN  [g EXCEPT ![ni - 1] = RMul(@, Two)]

(* ScatterSpecies without the memset *)
ScatterSpecies_NoClear(s, list, field) ==
  LET r == ScatterLoop(s, list, 1, FALSE, field, FALSE)
  IN  [field |-> CellVolume(r.field), oob |-> r.oob]

ScatterSpecies(s, list, field) ==
  LET r == ScatterLoop(s, list, 1, FALSE, ZeroField, FALSE)
  IN  [field |-> CellVolume(r.field), oob |-> r.oob]

ScatterSpeciesVel(s, list, field) ==
  LET r == ScatterLoop(s, list, 1, TRUE, ZeroField, FALSE)
  IN  [field |-> CellVolume(r.field), oob |-> r.oob]

(* ------------------------------------------------------------------ *)
(* Particle integrator                                                  *)
(* ------------------------------------------------------------------ *)
RemoveAt(list, it) == SubSeq(list, 1, it - 1) \o SubSeq(list, it + 1, Len(list))

(* the boundary test with the left boundary forgotten *)
Leaves_RightOnly(pos) == RLeq(xmax, pos)

(* the boundary test of PushSpecies *)
Leaves(pos) == RLess(pos, x0) \/ RLeq(xmax, pos)

(* one particle's velocity and position update in PushSpecies *)
PushParticle(s, part, efa) ==
  LET qm == RDiv(charge(s), mass(s))
      lc == XtoL(part.pos)
      part_ef == IF InGrid(lc) THEN gather(lc, efa) ELSE Zero
      v == RAdd(part.vel, RMul(RMul(DT, qm), part_ef))
  IN  [part EXCEPT !.vel = v, !.pos = RAdd(part.pos, RMul(DT, v))]

(* the loop advancing the iterator after an erase as well *)
RECURSIVE PushLoop_SkipAfterErase(_, _, _, _, _)
PushLoop_SkipAfterErase(s, list, it, efa, bad) ==
  IF it > Len(list) THEN [list |-> list, oob |-> bad]
  ELSE LET part == PushParticle(s, list[it], efa)
           b == bad \/ ~InGrid(XtoL(list[it].pos))
       IN  IF Leaves(part.pos)
           THEN PushLoop_SkipAfterErase(s, RemoveAt(list, it), it + 1, efa, b)
           ELSE PushLoop_SkipAfterErase(s, [list EXCEPT ![it] = part], it + 1, efa, b)

(* the while loop of PushSpecies; it is the iterator (an index into     *)
(* the list, Len(list) + 1 standing for end()); list.erase(it) leaves   *)
(* it on the element that followed the erased one                       *)
RECURSIVE PushLoop(_, _, _, _, _)
PushLoop(s, list, it, efa, bad) ==
  IF it > Len(list) THEN [list |-> list, oob |-> bad]
  ELSE LET part == PushParticle(s, list[it], efa)
           b == bad \/ ~InGrid(XtoL(list[it].pos))
       IN  IF Leaves(part.pos)
           THEN PushLoop(s, RemoveAt(list, it), it, efa, b)
           ELSE PushLoop(s, [list EXCEPT ![it] = part], it + 1, efa, b)

PushSpecies(s, list, efa) == PushLoop(s, list, 1, efa, FALSE)

RewindParticle(s, p, efa) ==
  LET qm == RDiv(charge(s), mass(s))
      lc == XtoL(p.pos)
      part_ef == IF InGrid(lc) THEN gather(lc, efa) ELSE Zero
  IN  [p EXCEPT !.vel = RSub(p.vel, RMul(RMul(RMul(Half, DT), qm), part_ef))]

RewindSpecies(s, list, efa) ==
  [list |-> [k \in 1 .. Len(list) |-> RewindParticle(s, list[k], efa)],
   oob |-> \E k \in 1 .. Len(list) : ~InGrid(XtoL(list[k].pos))]

(* ------------------------------------------------------------------ *)
(* Field solver                                                         *)
(* ------------------------------------------------------------------ *)
ComputeRho(ndiA, ndeA) ==
  [i \in Nodes |-> RAdd(RMul(charge("ions"), ndiA[i]),
                        RMul(charge("electrons"), ndeA[i]))]

(* Gauss-Seidel / SOR *)
GS_MAX_IT == 50            \* sweeps allowed
GS_CHECK == 25             \* the norm is tested when it % GS_CHECK = 0
GS_TOL == Rat(1, 10000)
GS_OMEGA == Rat(7, 5)

(* the inner loop of one sweep, from node i on, updating in place *)
RECURSIVE SweepFrom(_, _, _)
SweepFrom(i, p, rhoA) ==
  IF i >= ni - 1 THEN p
  ELSE LET dx2 == RMul(dx, dx)
           g == RMul(Half, RAdd(RAdd(p[i - 1], p[i + 1]),
                                RDiv(RMul(dx2, rhoA[i]), EPS)))
           v == FpRound(RAdd(p[i], RMul(GS_OMEGA, RSub(g, p[i]))))
       IN  SweepFrom(i + 1, [p EXCEPT ![i] = v], rhoA)

Sweep(p, rhoA) == SweepFrom(1, p, rhoA)

Residual(p, rhoA, i) ==
  RSub(RNeg(RDiv(rhoA[i], EPS)),
       RDiv(RAdd(RSub(p[i - 1], RMul(Two, p[i])), p[i + 1]), RMul(dx, dx)))

RECURSIVE ResidualSum(_, _, _)
ResidualSum(p, rhoA, i) ==
  IF i >= ni - 1 THEN Zero
  ELSE LET R == Residual(p, rhoA, i)
       IN  RAdd(RMul(R, R), ResidualSum(p, rhoA, i + 1))

(* L2 = sqrt(sum)/ni < 1e-4, compared without the square root *)
NormBelowTol(p, rhoA) ==
  LET bound == RMul(FromInt(ni), GS_TOL)
  IN  RLess(ResidualSum(p, rhoA, 1), RMul(bound, bound))

(* the loop testing the norm after every sweep *)
RECURSIVE GSLoop_TestEverySweep(_, _, _)
GSLoop_TestEverySweep(p, rhoA, it) ==
  IF it >= GS_MAX_IT
  THEN [phi |-> p, ret |-> "false", sweeps |-> it, printed |-> 1]
  ELSE LET q == Sweep(p, rhoA)
       IN  IF NormBelowTol(q, rhoA)
           THEN [phi |-> q, ret |-> "true", sweeps |-> it + 1, printed |-> 0]
           ELSE GSLoop_TestEverySweep(q, rhoA, it + 1)

(* the for loop over it of SolvePotential.  (DOMAIN q = Nodes is true of *)
(* every sweep; stating it first has each sweep computed before the     *)
(* next one is entered, instead of all of them at the first test.)      *)
RECURSIVE GSLoop(_, _, _)
GSLoop(p, rhoA, it) ==
  IF it >= GS_MAX_IT
  THEN [phi |-> p, ret |-> "false", sweeps |-> it, printed |-> 1]
  ELSE LET q == Sweep(p, rhoA)
       IN  IF DOMAIN q = Nodes /\ it % GS_CHECK = 0 /\ NormBelowTol(q, rhoA)
           THEN [phi |-> q, ret |-> "true", sweeps |-> it + 1, printed |-> 0]
           ELSE GSLoop(q, rhoA, it + 1)

(* the boundaries left as they were *)
GSBoundary_Skip(phiA) == phiA

(* phi[0] = phi[ni-1] = 0 *)
GSBoundary(phiA) == [[phiA EXCEPT ![ni - 1] = Zero] EXCEPT ![0] = Zero]

SolvePotential(phiA, rhoA) == GSLoop(GSBoundary(phiA), rhoA, 0)

(* Direct (Thomas) solver.  Coefficients of row i. *)
CoefA(i) == IF i = 0 \/ i = ni - 1 THEN Zero ELSE One
CoefB(i) == IF i = 0 \/ i = ni - 1 THEN One ELSE RNeg(Two)
CoefC(i) == IF i = 0 \/ i = ni - 1 THEN Zero ELSE One

(* the right-hand side with the wrong sign *)
DirectRhs_Sign(x, rhoA) ==
  [i \in Nodes |-> IF 0 < i /\ i < ni - 1
                   THEN RDiv(RMul(rhoA[i], RMul(dx, dx)), EPS)
                   ELSE x[i]]

(* right-hand side written into the interior nodes of x *)
DirectRhs(x, rhoA) ==
  [i \in Nodes |-> IF 0 < i /\ i < ni - 1
                   THEN RNeg(RDiv(RMul(rhoA[i], RMul(dx, dx)), EPS))
                   ELSE x[i]]

(* x[0] = 0; x[ni-1] = 0 *)
DirectBoundary(x) == [[x EXCEPT ![0] = Zero] EXCEPT ![ni - 1] = Zero]

(* forward elimination from row i on; cx = [c |-> ..., x |-> ...] *)
RECURSIVE DirectForward(_, _)
DirectForward(i, cx) ==
  IF i >= ni THEN cx
  ELSE LET id == RSub(CoefB(i), RMul(cx.c[i - 1], CoefA(i)))
           c2 == [cx.c EXCEPT ![i] = RDiv(@, id)]
           x2 == [cx.x EXCEPT ![i] = RDiv(RSub(@, RMul(cx.x[i - 1], CoefA(i))), id)]
       IN  DirectForward(i + 1, [c |-> c2, x |-> x2])

(* back substitution from row i down *)
RECURSIVE DirectBack(_, _, _)
DirectBack(i, c, x) ==
  IF i < 0 THEN x
  ELSE DirectBack(i - 1, c, [x EXCEPT ![i] = RSub(@, RMul(c[i], x[i + 1]))])

SolvePotentialDirect(x, rhoA) ==
  LET x1 == DirectBoundary(DirectRhs(x, rhoA))
      c0 == [i \in Nodes |-> CoefC(i)]
      c1 == [c0 EXCEPT ![0] = RDiv(@, CoefB(0))]
      x2 == [x1 EXCEPT ![0] = RDiv(@, CoefB(0))]
      f == DirectForward(1, [c |-> c1, x |-> x2])
  IN  [phi |-> DirectBack(ni - 2, f.c, f.x), ret |-> "true"]

ComputeEF(phiA) ==
  [i \in Nodes |->
     IF i = 0 THEN RNeg(RDiv(RSub(phiA[1], phiA[0]), dx))
     ELSE IF i = ni - 1 THEN RNeg(RDiv(RSub(phiA[ni - 1], phiA[ni - 2]), dx))
     ELSE RNeg(RDiv(RSub(phiA[i + 1], phiA[i - 1]), RMul(Two, dx)))]

(* ------------------------------------------------------------------ *)
(* main                                                                 *)
(* ------------------------------------------------------------------ *)
(* the calls main makes before the loop, in order *)
Prologue ==
  << <<"Init", "ions">>, <<"Init", "electrons">>,
     <<"ScatterSpecies", "ions">>, <<"ScatterSpecies", "electrons">>,
     <<"ComputeRho", "">>, <<"SolvePotential", "">>, <<"ComputeEF", "">>,
     <<"RewindSpecies", "ions">>, <<"RewindSpecies", "electrons">> >>

(* the loop pushing the ions before the field of the step is solved *)
LoopBody_PushFirst ==
  << <<"ScatterSpecies", "ions">>, <<"ScatterSpecies", "electrons">>,
     <<"ScatterSpeciesVel", "ions">>, <<"ScatterSpeciesVel", "electrons">>,
     <<"ComputeRho", "">>, <<"PushSpecies", "ions">>,
     <<"SolvePotentialDirect", "">>, <<"ComputeEF", "">>,
     <<"PushSpecies", "electrons">>, <<"Diagnostics", "">> >>

(* the loop rewinding the ions in every pass *)
LoopBody_Rewind ==
  << <<"ScatterSpecies", "ions">>, <<"ScatterSpecies", "electrons">>,
     <<"ScatterSpeciesVel", "ions">>, <<"ScatterSpeciesVel", "electrons">>,
     <<"ComputeRho", "">>, <<"SolvePotentialDirect", "">>, <<"ComputeEF", "">>,
     <<"RewindSpecies", "ions">>,
     <<"PushSpecies", "ions">>, <<"PushSpecies", "electrons">>,
     <<"Diagnostics", "">> >>

(* the calls of one pass of the main loop, in order *)
LoopBody ==
  << <<"ScatterSpecies", "ions">>, <<"ScatterSpecies", "electrons">>,
     <<"ScatterSpeciesVel", "ions">>, <<"ScatterSpeciesVel", "electrons">>,
     <<"ComputeRho", "">>, <<"SolvePotentialDirect", "">>, <<"ComputeEF", "">>,
     <<"PushSpecies", "ions">>, <<"PushSpecies", "electrons">>,
     <<"Diagnostics", "">> >>

(* the call main is about to make; pc = [phase, k] *)
Stmt ==
  IF pc.phase = "pre" THEN Prologue[pc.k]
  ELSE IF pc.phase = "loop" THEN LoopBody[pc.k]
  ELSE <<pc.phase, "">>

LastOfPass == pc.phase = "loop" /\ pc.k = Len(LoopBody)

(* for (ts = 0; ts < NUM_TS+1; ts++) *)
NextTs == IF LastOfPass THEN ts + 1 ELSE ts

NextPc ==
  IF pc.phase = "pre" /\ pc.k < Len(Prologue) THEN [phase |-> "pre", k |-> pc.k + 1]
  ELSE IF pc.phase = "loop" /\ pc.k < Len(LoopBody) THEN [phase |-> "loop", k |-> pc.k + 1]
  ELSE IF NextTs < NUM_TS + 1 THEN [phase |-> "loop", k |-> 1]
  ELSE [phase |-> "done", k |-> 0]

Return == pc' = NextPc /\ ts' = NextTs

(* the values rnd() is taken to return, out of [0, 1) *)
RndValues == {Zero, Half}
Draws == RndValues \X RndValues \X RndValues \X RndValues

MainInit ==
  /\ ni = NC + 1
  /\ dx = DX
  /\ phi = ZeroField /\ ef = ZeroField /\ rho = ZeroField
  /\ nde = ZeroField /\ ndi = ZeroField
  /\ veli = ZeroField /\ vele = ZeroField
  /\ part_list = [s \in Species |-> <<>>]
  /\ part_id = [s \in Species |-> 0]
  /\ pc = [phase |-> "pre", k |-> 1]
  /\ ts = 0
  /\ Time = Zero
  /\ ret = "none" /\ sweeps = 0 /\ printed = 0
  /\ n_rewind = [s \in Species |-> 0]
  /\ oob = FALSE
  /\ pre = [fn |-> "main"]

CallInit(s) ==
  /\ Stmt = <<"Init", s>>
  /\ \E draws \in [1 .. InitCount(s) -> Draws] :
       LET r == InitLoop(s, part_list[s], part_id[s], draws, 1)
       IN  /\ part_list' = [part_list EXCEPT ![s] = r.list]
           /\ part_id' = [part_id EXCEPT ![s] = r.part_id]
  /\ Return
  /\ UNCHANGED <<ni, dx, phi, ef, rho, nde, ndi, veli, vele, Time, ret,
                 sweeps, printed, n_rewind, oob, pre>>

CallScatterSpecies(s) ==
  /\ Stmt = <<"ScatterSpecies", s>>
  /\ \E r \in {ScatterSpecies(s, part_list[s], IF s = "ions" THEN ndi ELSE nde)} :
       /\ ndi' = IF s = "ions" THEN r.field ELSE ndi
       /\ nde' = IF s = "ions" THEN nde ELSE r.field
       /\ oob' = (oob \/ r.oob)
  /\ Return
  /\ UNCHANGED <<ni, dx, phi, ef, rho, veli, vele, part_list, part_id, Time,
                 ret, sweeps, printed, n_rewind, pre>>

CallScatterSpeciesVel(s) ==
  /\ Stmt = <<"ScatterSpeciesVel", s>>
  /\ \E r \in {ScatterSpeciesVel(s, part_list[s], IF s = "ions" THEN veli ELSE vele)} :
       /\ veli' = IF s = "ions" THEN r.field ELSE veli
       /\ vele' = IF s = "ions" THEN vele ELSE r.field
       /\ oob' = (oob \/ r.oob)
  /\ Return
  /\ UNCHANGED <<ni, dx, phi, ef, rho, nde, ndi, part_list, part_id, Time,
                 ret, sweeps, printed, n_rewind, pre>>

CallComputeRho ==
  /\ Stmt = <<"ComputeRho", "">>
  /\ rho' = ComputeRho(ndi, nde)
  /\ Return
  /\ UNCHANGED <<ni, dx, phi, ef, nde, ndi, veli, vele, part_list, part_id,
                 Time, ret, sweeps, printed, n_rewind, oob, pre>>

CallSolvePotential ==
  /\ Stmt = <<"SolvePotential", "">>
  /\ \E r \in {SolvePotential(phi, rho)} :
       /\ phi' = r.phi
       /\ ret' = r.ret
       /\ sweeps' = r.sweeps
       /\ printed' = printed + r.printed
  /\ Return
  /\ UNCHANGED <<ni, dx, ef, rho, nde, ndi, veli, vele, part_list, part_id,
                 Time, n_rewind, oob, pre>>

CallSolvePotentialDirect ==
  /\ Stmt = <<"SolvePotentialDirect", "">>
  /\ \E r \in {SolvePotentialDirect(phi, rho)} :
       /\ phi' = r.phi
       /\ ret' = r.ret
  /\ Return
  /\ UNCHANGED <<ni, dx, ef, rho, nde, ndi, veli, vele, part_list, part_id,
                 Time, sweeps, printed, n_rewind, oob, pre>>

CallComputeEF ==
  /\ Stmt = <<"ComputeEF", "">>
  /\ ef' = ComputeEF(phi)
  /\ Return
  /\ UNCHANGED <<ni, dx, phi, rho, nde, ndi, veli, vele, part_list, part_id,
                 Time, ret, sweeps, printed, n_rewind, oob, pre>>

CallRewindSpecies(s) ==
  /\ Stmt = <<"RewindSpecies", s>>
  /\ \E r \in {RewindSpecies(s, part_list[s], ef)} :
       /\ part_list' = [part_list EXCEPT ![s] = r.list]
       /\ oob' = (oob \/ r.oob)
  /\ n_rewind' = [n_rewind EXCEPT ![s] = @ + 1]
  /\ Return
  /\ UNCHANGED <<ni, dx, phi, ef, rho, nde, ndi, veli, vele, part_id, Time,
                 ret, sweeps, printed, pre>>

CallPushSpecies(s) ==
  /\ Stmt = <<"PushSpecies", s>>
  /\ \E r \in {PushSpecies(s, part_list[s], ef)} :
       /\ part_list' = [part_list EXCEPT ![s] = r.list]
       /\ oob' = (oob \/ r.oob)
  /\ Return
  /\ UNCHANGED <<ni, dx, phi, ef, rho, nde, ndi, veli, vele, part_id, Time,
                 ret, sweeps, printed, n_rewind, pre>>

(* the end of a pass: the diagnostics (output only) and Time += DT *)
Diagnostics ==
  /\ Stmt = <<"Diagnostics", "">>
  /\ Time' = RAdd(Time, DT)
  /\ Return
  /\ UNCHANGED <<ni, dx, phi, ef, rho, nde, ndi, veli, vele, part_list,
                 part_id, ret, sweeps, printed, n_rewind, oob, pre>>

Next ==
  \/ \E s \in Species : CallInit(s)
  \/ \E s \in Species : CallScatterSpecies(s)
  \/ \E s \in Species : CallScatterSpeciesVel(s)
  \/ CallComputeRho
  \/ CallSolvePotential
  \/ CallSolvePotentialDirect
  \/ CallComputeEF
  \/ \E s \in Species : CallRewindSpecies(s)
  \/ \E s \in Species : CallPushSpecies(s)
  \/ Diagnostics

Spec == MainInit /\ [][Next]_vars

(* ------------------------------------------------------------------ *)
(* The field solvers called on drawn arguments                          *)
(* ------------------------------------------------------------------ *)
MaxNi == 5
RhoValues == {FromInt(-1), Zero, One}
DxValues == {One, Half}
(* prior contents of an array of n nodes: a + b*i *)
Priors(n) == {[i \in 0 .. (n - 1) |-> FromInt(a + b * i)] : a \in 0 .. 1, b \in 0 .. 1}

Quiet ==
  /\ part_list = [s \in Species |-> <<>>]
  /\ part_id = [s \in Species |-> 0]
  /\ ts = 0 /\ Time = Zero
  /\ ret = "none" /\ sweeps = 0 /\ printed = 0
  /\ n_rewind = [s \in Species |-> 0]
  /\ oob = FALSE

SolverInit ==
  /\ ni \in 3 .. MaxNi
  /\ dx \in DxValues
  /\ rho \in [0 .. (ni - 1) -> RhoValues]
  /\ phi \in Priors(ni)
  /\ ef = ZeroField /\ nde = ZeroField /\ ndi = ZeroField
  /\ veli = ZeroField /\ vele = ZeroField
  /\ Quiet
  /\ pc = [phase |-> "arg", k |-> 0]
  /\ pre = [fn |-> "none"]

TestSolvePotential ==
  /\ pc.phase = "arg"
  /\ \E r \in {SolvePotential(phi, rho)} :
       /\ phi' = r.phi
       /\ ret' = r.ret
       /\ sweeps' = r.sweeps
       /\ printed' = printed + r.printed
  /\ pc' = [phase |-> "ret", k |-> 1]
  /\ pre' = [fn |-> "SolvePotential", phi |-> phi]
  /\ UNCHANGED <<ni, dx, ef, rho, nde, ndi, veli, vele, part_list, part_id,
                 ts, Time, n_rewind, oob>>

TestSolvePotentialDirect ==
  /\ pc.phase = "arg"
  /\ \E r \in {SolvePotentialDirect(phi, rho)} :
       /\ phi' = r.phi
       /\ ret' = r.ret
  /\ pc' = [phase |-> "ret", k |-> 1]
  /\ pre' = [fn |-> "SolvePotentialDirect", phi |-> phi]
  /\ UNCHANGED <<ni, dx, ef, rho, nde, ndi, veli, vele, part_list, part_id,
                 ts, Time, sweeps, printed, n_rewind, oob>>

SolverNext == TestSolvePotential \/ TestSolvePotentialDirect

SpecSolver == SolverInit /\ [][SolverNext]_vars

(* ------------------------------------------------------------------ *)
(* Deposition and integration called on drawn arguments                 *)
(* ------------------------------------------------------------------ *)
MaxParts == 2
(* positions on the half-cell lattice inside [x0, xmax) of n nodes *)
LatticePos(n) == {Rat(k, 2) : k \in 0 .. (2 * (n - 1) - 1)}
LatticeVel == {FromInt(-1), Zero, One}
(* lists of exactly m particles with identities 0 .. m-1 *)
ListsOf(n, m) ==
  {[k \in 1 .. m |-> [pos |-> f[k][1], vel |-> f[k][2], id |-> k - 1]] :
     f \in [1 .. m -> LatticePos(n) \X LatticeVel]}

ParticleInit ==
  /\ ni = 3
  /\ dx = DX
  /\ \E a \in Priors(ni) :
       /\ ndi = a /\ nde = a /\ veli = a /\ vele = a /\ ef = a
  /\ phi = ZeroField /\ rho = ZeroField
  /\ \E s \in Species, m \in 0 .. MaxParts :
       \E l \in ListsOf(ni, m) :
         /\ part_list = [t \in Species |-> IF t = s THEN l ELSE <<>>]
         /\ part_id = [t \in Species |-> IF t = s THEN m ELSE 0]
         /\ pre = [fn |-> "none", s |-> s, list |-> l]
  /\ ts = 0 /\ Time = Zero
  /\ ret = "none" /\ sweeps = 0 /\ printed = 0
  /\ n_rewind = [s \in Species |-> 0]
  /\ oob = FALSE
  /\ pc = [phase |-> "arg", k |-> 0]

TestScatterSpecies ==
  /\ pc.phase \in {"arg", "ret"}
  /\ \E r \in {ScatterSpecies(pre.s, part_list[pre.s], ndi)} :
       /\ ndi' = r.field
       /\ oob' = (oob \/ r.oob)
  /\ pc' = [phase |-> "ret", k |-> pc.k]
  /\ pre' = [pre EXCEPT !.fn = "ScatterSpecies"]
  /\ UNCHANGED <<ni, dx, phi, ef, rho, nde, veli, vele, part_list, part_id,
                 ts, Time, ret, sweeps, printed, n_rewind>>

TestScatterSpeciesVel ==
  /\ pc.phase \in {"arg", "ret"}
  /\ \E r \in {ScatterSpeciesVel(pre.s, part_list[pre.s], veli)} :
       /\ veli' = r.field
       /\ oob' = (oob \/ r.oob)
  /\ pc' = [phase |-> "ret", k |-> pc.k]
  /\ pre' = [pre EXCEPT !.fn = "ScatterSpeciesVel"]
  /\ UNCHANGED <<ni, dx, phi, ef, rho, nde, ndi, vele, part_list, part_id,
                 ts, Time, ret, sweeps, printed, n_rewind>>

(* PushSpecies, once *)
TestPushSpecies ==
  /\ pc.phase \in {"arg", "ret"}
  /\ pc.k = 0
  /\ \E r \in {PushSpecies(pre.s, part_list[pre.s], ef)} :
       /\ part_list' = [part_list EXCEPT ![pre.s] = r.list]
       /\ oob' = (oob \/ r.oob)
  /\ pc' = [phase |-> "ret", k |-> 1]
  /\ pre' = [pre EXCEPT !.fn = "PushSpecies", !.list = part_list[pre.s]]
  /\ UNCHANGED <<ni, dx, phi, ef, rho, nde, ndi, veli, vele, part_id,
                 ts, Time, ret, sweeps, printed, n_rewind>>

ParticleNext == TestScatterSpecies \/ TestScatterSpeciesVel \/ TestPushSpecies

SpecParticles == ParticleInit /\ [][ParticleNext]_vars

(* ------------------------------------------------------------------ *)
(* Properties                                                           *)
(* ------------------------------------------------------------------ *)
Ids(list) == {list[k].id : k \in 1 .. Len(list)}
InDomain(pos) == RLeq(x0, pos) /\ RLess(pos, xmax)
Other(s) == IF s = "ions" THEN "electrons" ELSE "ions"

RECURSIVE RSumSeq(_)
RSumSeq(q) == IF q = <<>> THEN Zero ELSE RAdd(Head(q), RSumSeq(Tail(q)))

(* C1: once Init has run on both populations, each holds exactly its    *)
(* configured particle count NUM.                                       *)
C1_InitFillsToNUM ==
  (pc.phase = "pre" /\ Stmt = <<"ScatterSpecies", "ions">>)
    => \A s \in Species : Len(part_list[s]) = NUM(s)

(* C2: one call of PushSpecies updates every particle of the list once, *)
(* removes exactly those whose updated position is < x0 or >= xmax and  *)
(* keeps the others in order; the size drops by the number removed.     *)
PushedOnce(s, list, efa) == [k \in 1 .. Len(list) |-> PushParticle(s, list[k], efa)]
StaysIn(part) == InDomain(part.pos)

C2_PushOnePass ==
  (pc.phase = "ret" /\ pre.fn = "PushSpecies") =>
    LET moved == PushedOnce(pre.s, pre.list, ef)
        gone == {k \in 1 .. Len(moved) : ~InDomain(moved[k].pos)}
    IN  /\ part_list[pre.s] = SelectSeq(moved, StaysIn)
        /\ Len(part_list[pre.s]) = Len(pre.list) - Cardinality(gone)
        /\ Ids(part_list[pre.s]) = {moved[k].id : k \in (1 .. Len(moved)) \ gone}

(* a push that removed the first particle and kept the one after it *)
C2_Witness ==
  /\ pc.phase = "ret" /\ pre.fn = "PushSpecies"
  /\ Len(pre.list) >= 2
  /\ ~InDomain(PushParticle(pre.s, pre.list[1], ef).pos)
  /\ InDomain(PushParticle(pre.s, pre.list[2], ef).pos)
  /\ part_list[pre.s][1] = PushParticle(pre.s, pre.list[2], ef)

(* C3: after a call of either solver, whatever rho and the prior phi,   *)
(* phi[0] = 0 and phi[ni-1] = 0, also when the relaxation solver fails. *)
C3_DirichletBoundary ==
  (pc.phase = "ret" /\ pre.fn \in {"SolvePotential", "SolvePotentialDirect"})
    => (phi[0] = Zero /\ phi[ni - 1] = Zero)

(* the relaxation solver failed on an array whose boundary was not 0 *)
C3_Witness ==
  /\ pc.phase = "ret" /\ pre.fn = "SolvePotential"
  /\ ret = "false"
  /\ pre.phi[0] # Zero /\ pre.phi[ni - 1] # Zero
  /\ phi[0] = Zero /\ phi[ni - 1] = Zero

(* C4: the potential written by SolvePotentialDirect satisfies          *)
(* -(phi[i-1] - 2 phi[i] + phi[i+1])/dx^2 = rho[i]/EPS at every         *)
(* interior node, with phi[0] = phi[ni-1] = 0, whatever the prior       *)
(* content; zero rho on 5 nodes with dx = 1 gives zero phi; a single    *)
(* positive charge at the centre node gives a symmetric phi.            *)
CentreCharge ==
  /\ ni % 2 = 1
  /\ \A i \in Nodes : rho[i] = (IF 2 * i = ni - 1 THEN One ELSE Zero)

C4_DirectSolvesPoisson ==
  (pc.phase = "ret" /\ pre.fn = "SolvePotentialDirect") =>
    /\ \A i \in 1 .. (ni - 2) :
         RNeg(RDiv(RAdd(RSub(phi[i - 1], RMul(Two, phi[i])), phi[i + 1]),
                   RMul(dx, dx)))
           = RDiv(rho[i], EPS)
    /\ phi[0] = Zero /\ phi[ni - 1] = Zero
    /\ (ni = 5 /\ dx = One /\ rho = ZeroField) => phi = ZeroField
    /\ CentreCharge => \A i \in Nodes : phi[i] = phi[ni - 1 - i]
    /\ ret = "true"

(* the direct solve of a centre charge on 5 nodes over a non-zero array *)
C4_Witness ==
  /\ pc.phase = "ret" /\ pre.fn = "SolvePotentialDirect"
  /\ ni = 5 /\ dx = One /\ CentreCharge
  /\ pre.phi[0] # Zero /\ pre.phi[2] # phi[2]
  /\ RLess(Zero, phi[2]) /\ phi[1] = phi[3]

(* C5: SolvePotential runs at most GS_MAX_IT sweeps; it returns true at *)
(* the first sweep it with it % 25 = 0 whose norm is below 1e-4, and    *)
(* false, with one message, exactly when no such sweep exists among the *)
(* GS_MAX_IT sweeps; the array holds the last sweep's potential.        *)
RECURSIVE SweepN(_, _, _)
SweepN(p, rhoA, n) ==
  IF n = 0 THEN p
  ELSE LET q == Sweep(p, rhoA)
       IN  IF DOMAIN q = Nodes THEN SweepN(q, rhoA, n - 1) ELSE q

C5_RelaxationOutcome ==
  (pc.phase = "ret" /\ pre.fn = "SolvePotential") =>
    LET p0 == [[pre.phi EXCEPT ![0] = Zero] EXCEPT ![ni - 1] = Zero]
        Tested == {k \in 0 .. (GS_MAX_IT - 1) : k % 25 = 0}
        Hits == {k \in Tested : NormBelowTol(SweepN(p0, rho, k + 1), rho)}
        first == CHOOSE k \in Hits : \A j \in Hits : k <= j
    IN  /\ sweeps <= GS_MAX_IT
        /\ ret \in {"true", "false"}
        /\ (ret = "true") <=> (Hits # {})
        /\ ret = "true" => (sweeps = first + 1 /\ printed = 0)
        /\ ret = "false" => (sweeps = GS_MAX_IT /\ printed = 1)
        /\ phi = SweepN(p0, rho, sweeps)

(* a call that ran out of sweeps *)
C5_Witness ==
  /\ pc.phase = "ret" /\ pre.fn = "SolvePotential"
  /\ ret = "false" /\ sweeps = GS_MAX_IT /\ printed = 1

(* C6: in every pass of the main loop the populations are pushed only   *)
(* after the densities of both populations, rho, phi and ef of that     *)
(* pass have been computed, in that order, and both are pushed with the *)
(* same ef.                                                             *)
DepositedNow(s) ==
  (IF s = "ions" THEN ndi ELSE nde) = ScatterSpecies(s, part_list[s], ZeroField).field
RhoNow == rho = ComputeRho(ndi, nde)
PhiNow == phi = SolvePotentialDirect(ZeroField, rho).phi
EfNow == ef = ComputeEF(phi)

C6_StepOrder ==
  pc.phase = "loop" =>
    /\ Stmt = <<"ComputeRho", "">> => \A s \in Species : DepositedNow(s)
    /\ Stmt = <<"SolvePotentialDirect", "">> =>
         (RhoNow /\ \A s \in Species : DepositedNow(s))
    /\ Stmt = <<"ComputeEF", "">> =>
         (PhiNow /\ RhoNow /\ \A s \in Species : DepositedNow(s))
    /\ Stmt = <<"PushSpecies", "ions">> =>
         (EfNow /\ PhiNow /\ RhoNow /\ \A s \in Species : DepositedNow(s))
    /\ Stmt = <<"PushSpecies", "electrons">> =>
         (EfNow /\ PhiNow /\ RhoNow /\ DepositedNow("electrons"))

(* the second pass, about to push the electrons, an ion having left *)
C6_Witness ==
  /\ pc.phase = "loop" /\ ts = 1
  /\ Stmt = <<"PushSpecies", "electrons">>
  /\ Len(part_list["ions"]) = 1
  /\ \E i \in Nodes : ef[i] # Zero

(* C7: RewindSpecies runs exactly once for each population, after the   *)
(* first potential solve and the ComputeEF that follows it and before   *)
(* the first pass of the main loop, never inside the loop; the call     *)
(* lowers each velocity by 0.5*DT*qm*E, E gathered at the particle's    *)
(* position, and leaves positions and membership as they were.          *)
RewoundAt(s) ==
  /\ n_rewind[s] <= 1
  /\ pc.phase \in {"loop", "done"} => n_rewind[s] = 1
  /\ Stmt = <<"RewindSpecies", s>> =>
       /\ pc.phase = "pre" /\ ts = 0 /\ n_rewind[s] = 0
       /\ ret # "none" /\ sweeps > 0
       /\ EfNow
  /\ (pc.phase = "pre" /\ n_rewind[s] = 1) => Stmt[1] = "RewindSpecies"

RewindEffect(s) ==
  n_rewind'[s] # n_rewind[s] =>
    /\ n_rewind'[s] = n_rewind[s] + 1
    /\ Len(part_list'[s]) = Len(part_list[s])
    /\ \A k \in 1 .. Len(part_list[s]) :
         LET p == part_list[s][k]
             q == part_list'[s][k]
             E == gather(XtoL(p.pos), ef)
             qm == RDiv(charge(s), mass(s))
         IN  /\ q.pos = p.pos /\ q.id = p.id
             /\ q.vel = RSub(p.vel, RMul(RMul(RMul(Half, DT), qm), E))
    /\ part_list'[Other(s)] = part_list[Other(s)]

C7_RewindOnce ==
  /\ [](\A s \in Species : RewoundAt(s))
  /\ [][\A s \in Species : RewindEffect(s)]_vars

(* the first pass is about to start: both populations rewound once, in *)
(* a field that is not zero                                            *)
C7_Witness ==
  /\ pc = [phase |-> "loop", k |-> 1] /\ ts = 0
  /\ \A s \in Species : n_rewind[s] = 1 /\ Len(part_list[s]) = NUM_IONS
  /\ \E i \in Nodes : ef[i] # Zero
  /\ \E k \in 1 .. NUM_IONS : part_list["electrons"][k].vel[2] > 2

(* C8: identities in a list are strictly increasing, hence distinct;    *)
(* once Init is over no step adds a particle or an identity, and the    *)
(* only step that removes one is PushSpecies of that population.        *)
IdsIncrease ==
  \A s \in Species :
    /\ \A i, j \in 1 .. Len(part_list[s]) :
         i < j => part_list[s][i].id < part_list[s][j].id
    /\ \A i \in 1 .. Len(part_list[s]) :
         part_list[s][i].id >= 0 /\ part_list[s][i].id < part_id[s]

OnlyShrinks ==
  \A s \in Species :
    /\ Stmt[1] # "Init" =>
         /\ Ids(part_list'[s]) \subseteq Ids(part_list[s])
         /\ Len(part_list'[s]) <= Len(part_list[s])
         /\ part_id'[s] = part_id[s]
    /\ Ids(part_list'[s]) # Ids(part_list[s]) =>
         Stmt \in {<<"Init", s>>, <<"PushSpecies", s>>}
    /\ Stmt[1] = "Init" => pc.phase = "pre" /\ ts = 0

C8_IdentitiesAndAbsorption == []IdsIncrease /\ [][OnlyShrinks]_vars

(* the run is over; of the ions the first has left and the second is    *)
(* still there                                                          *)
C8_Witness ==
  /\ pc.phase = "done"
  /\ Ids(part_list["ions"]) = {1}
  /\ part_id["ions"] = 2

Share(part, value, k) ==
  LET lc == XtoL(part.pos)
      i == Floor(lc)
      di == RSub(lc, FromInt(i))
  IN  IF i = k THEN RMul(value, RSub(One, di))
      ELSE IF i = k - 1 THEN RMul(value, di)
      ELSE Zero

Deposit(s, list, withVel) ==
  LET value(part) == IF withVel THEN RMul(spwt(s), part.vel) ELSE spwt(s)
      total(k) == RSumSeq([j \in 1 .. Len(list) |-> Share(list[j], value(list[j]), k)])
  IN  [k \in Nodes |->
         RMul(RDiv(total(k), dx), IF k = 0 \/ k = ni - 1 THEN Two ELSE One)]

TotalValue(s, list, withVel) ==
  RSumSeq([j \in 1 .. Len(list) |->
             IF withVel THEN RMul(spwt(s), list[j].vel) ELSE spwt(s)])

Undoubled(field) ==
  RSumSeq([j \in 1 .. ni |->
             RMul(RMul(field[j - 1], dx),
                  IF j - 1 = 0 \/ j - 1 = ni - 1 THEN Half ELSE One)])

C10_ScatterIsSnapshot ==
  /\ (pc.phase = "ret" /\ pre.fn = "ScatterSpecies") =>
       /\ ndi = Deposit(pre.s, part_list[pre.s], FALSE)
       /\ Undoubled(ndi) = TotalValue(pre.s, part_list[pre.s], FALSE)
  /\ (pc.phase = "ret" /\ pre.fn = "ScatterSpeciesVel") =>
       /\ veli = Deposit(pre.s, part_list[pre.s], TRUE)
       /\ Undoubled(veli) = TotalValue(pre.s, part_list[pre.s], TRUE)

(* a scatter after a push that removed a particle and kept another,     *)
(* into an array that held the density of the list before the push      *)
C10_Witness ==
  /\ pc = [phase |-> "ret", k |-> 1] /\ pre.fn = "ScatterSpecies"
  /\ Len(pre.list) = 2 /\ Len(part_list[pre.s]) = 1
  /\ ndi # Deposit(pre.s, pre.list, FALSE)
  /\ veli = Deposit(pre.s, pre.list, TRUE)
  /\ \E i \in Nodes : ndi[i] # Zero

====
